---------------------------- MODULE Spec2Model ----------------------------
(***************************************************************************)
(* A model of the BCI validation scripts:                                  *)
(*   03_calculate_bci.py  calculate_bci and its two components, and        *)
(*                        process_validation_data                          *)
(*   04_validation.py     the per-storm summary of validate_bci            *)
(*   01_download_tigge.py the download loop of download_tigge_storms       *)
(*                                                                         *)
(* Numbers.  An input float (a temperature, a supplied spread or error) is *)
(* a whole number of Units of 1/128: 3.5 is 448.  Such a number is a       *)
(* double without rounding, and so are the differences and the sums the    *)
(* code forms of them.  A float the code derives from the inputs by a      *)
(* division or a square root (np.mean, np.std) is a quotient num / den of  *)
(* Units, and the tests `> 0.01` and `> 0.1` are decided on the quotient   *)
(* the way the doubles decide them.  A score (directional agreement,       *)
(* magnitude consistency, phi, rho, BCI) is truncated to a thousandth      *)
(* (Scale = 1000): phi = 0.65 is 650.  NaN is a score that is nan and None *)
(* the Python None of an omitted argument.                                 *)
(***************************************************************************)
EXTENDS Integers, Sequences, FiniteSets

VARIABLES
    \* one call of calculate_bci
    ensemble_members, observation, spread, error, ret, spc,
    \* one run of process_validation_data
    matched_df, ensemble_df, idx, results, ppc,
    \* one run of validate_bci
    df, storm_stats, vpc,
    \* one run of download_tigge_storms
    completed, issued, n_files, n_errors, storm_i, origin_i, dpc

scoreVars == <<ensemble_members, observation, spread, error, ret, spc>>
procVars == <<matched_df, ensemble_df, idx, results, ppc>>
validVars == <<df, storm_stats, vpc>>
downVars == <<completed, issued, n_files, n_errors, storm_i, origin_i, dpc>>
vars == <<scoreVars, procVars, validVars, downVars>>

(***************************************************************************)
(* Floats                                                                  *)
(***************************************************************************)
Unit == 2 ^ 7
Scale == 10 * 100
NaN == 0 - Scale * Scale
None == NaN - 1

Abs(x) == IF x < 0 THEN 0 - x ELSE x
Max2(a, b) == IF a >= b THEN a ELSE b
Min2(a, b) == IF b < a THEN b ELSE a

RECURSIVE SumSeq(_)
SumSeq(xs) == IF xs = <<>> THEN 0 ELSE Head(xs) + SumSeq(Tail(xs))

RECURSIVE SumSq(_)
SumSq(xs) == IF xs = <<>> THEN 0 ELSE Head(xs) * Head(xs) + SumSq(Tail(xs))

\* the largest r in lo..hi with r*r <= x, by bisection
RECURSIVE SqrtSearch(_, _, _)
SqrtSearch(x, lo, hi) ==
    IF lo >= hi THEN lo
    ELSE LET mid == (lo + hi + 1) \div 2
         IN  IF mid * mid <= x THEN SqrtSearch(x, mid, hi)
             ELSE SqrtSearch(x, lo, mid - 1)

\* the integer square root of x >= 0
ISqrt(x) == SqrtSearch(x, 0, Min2(x, 46340))

\* floor(log2(a / b)) for a >= b > 0
RECURSIVE Log2Floor(_, _)
Log2Floor(a, b) == IF a \div 2 < b THEN 0 ELSE 1 + Log2Floor(a, 2 * b)

\* np.sqrt of the product of two scores; nan propagates
np_sqrt_prod(a, b) == IF a = NaN \/ b = NaN THEN NaN ELSE ISqrt(a * b)

\* np.clip(x, lo, hi) of a score; nan stays nan
np_clip(x, lo, hi) == IF x = NaN THEN NaN ELSE Max2(lo, Min2(x, hi))

\* A float as the quotient num / den of Units (den = 0: nan).  `above` tells that
\* the double the code holds is greater than the double nearest to num / den; it is
\* worked out where the quotient is 0.1, the one value a test can meet exactly.
Float(k) == [num |-> k, den |-> 1, above |-> FALSE]
NanFloat == [num |-> 0, den |-> 0, above |-> FALSE]
IsNan(x) == x.den = 0

\* n^2 times the variance of xs, n * sum(d^2) - sum(d)^2, of the deviations d from
\* the first element (the variance is that of the deviations from the mean)
ScaledVariance(xs) ==
    LET d == [i \in 1..Len(xs) |-> xs[i] - xs[1]]
    IN  Len(xs) * SumSq(d) - SumSeq(d) * SumSeq(d)

\* sqrt(m) as the quotient num / den: the root is taken of m * den^2 for a power of
\* two den up to 2^8, which keeps the digits of a small root
RECURSIVE SqrtQuotient(_, _)
SqrtQuotient(m, d) ==
    IF m = 0 \/ m >= 2 ^ 29 \/ d >= 2 ^ 8 THEN [num |-> ISqrt(m), den |-> d]
    ELSE SqrtQuotient(4 * m, 2 * d)

\* np.std(xs): the population standard deviation sqrt(n^2 * variance) / n;
\* nan for an empty array
np_std(xs) ==
    LET n == Len(xs)
        r == SqrtQuotient(ScaledVariance(xs), 1)
    IN  IF n = 0 THEN NanFloat
        ELSE [num |-> r.num, den |-> n * r.den, above |-> FALSE]

\* np.abs(np.mean(xs) - c) where |sum(xs) / n - c| is 0.1: np.mean rounds c +- 0.1 to
\* a double of its own binade [2^e, 2^(e+1)), i.e. 0.1 to 52 - e binary places, and
\* the difference from c is that rounding of 0.1.  The binary digits of 0.1 are
\* 0.000110011..., so for e >= 0 it is rounded up, and past the double 0.1, when
\* e % 4 is 0 or 1; for e < 0 the difference is at most the double 0.1.
RoundsAboveTenth(xs, c) ==
    LET n == Len(xs)
        s == Abs(SumSeq(xs))
    IN  /\ 10 * Abs(SumSeq(xs) - n * c) = Unit * n
        /\ s >= Unit * n
        /\ Log2Floor(s, Unit * n) % 4 \in {0, 1}

\* np.abs(np.mean(xs) - c) = |sum(xs) - n*c| / n; nan for an empty array
np_abs_mean_diff(xs, c) ==
    LET n == Len(xs)
    IN  IF n = 0 THEN NanFloat
        ELSE [num |-> Abs(SumSeq(xs) - n * c), den |-> n,
              above |-> RoundsAboveTenth(xs, c)]

\* x > t for a float x and t thousandths: false when x is nan
Gt(x, t) ==
    /\ ~IsNan(x)
    /\ \/ x.num * Scale > t * Unit * x.den
       \/ x.num * Scale = t * Unit * x.den /\ x.above

\* x / y in thousandths, truncated (y > 0)
Quotient(x, y) == ((x.num * y.den * Scale) \div y.num) \div x.den

(***************************************************************************)
(* calculate_bci_component_phi                                             *)
(***************************************************************************)
BiasTol == 10
DefaultMC == 800
Lo == 300
Hi == 1000
ErrTol == 100

Biases(ms, obs) == [i \in 1..Len(ms) |-> ms[i] - obs]

\* max(n_positive, n_negative) / len(biases); 0 / 0 is nan (a numpy scalar division)
DirectionalAgreement(biases) ==
    LET n_positive == Cardinality({i \in DOMAIN biases : biases[i] > 0})
        n_negative == Cardinality({i \in DOMAIN biases : biases[i] < 0})
    IN  IF Len(biases) = 0 THEN NaN
        ELSE (Max2(n_positive, n_negative) * Scale) \div Len(biases)

\* a faulty variant: the default is taken only for a mean bias of exactly zero
MagnitudeConsistency_zero_tol(biases) ==
    LET bias_std == np_std(biases)
        bias_mean == np_abs_mean_diff(biases, 0)
    IN  IF Gt(bias_mean, 0)
        THEN LET cv == Quotient(bias_std, bias_mean)
             IN  (Scale * Scale) \div (Scale + cv)
        ELSE DefaultMC

MagnitudeConsistency(biases) ==
    LET bias_std == np_std(biases)
        bias_mean == np_abs_mean_diff(biases, 0)
    IN  IF Gt(bias_mean, BiasTol)
        THEN LET cv == Quotient(bias_std, bias_mean)
             IN  (Scale * Scale) \div (Scale + cv)
        ELSE DefaultMC

\* a faulty variant: the directional agreement is left out
PhiCombine_mc_only(da, mc) ==
    LET phi == IF da = NaN \/ mc = NaN THEN NaN ELSE mc
    IN  np_clip(phi, Lo, Hi)

\* 0.5 * directional_agreement + 0.5 * magnitude_consistency, clipped
PhiCombine(da, mc) ==
    LET phi == IF da = NaN \/ mc = NaN THEN NaN ELSE (da + mc) \div 2
    IN  np_clip(phi, Lo, Hi)

calculate_bci_component_phi(ms, obs) ==
    LET biases == Biases(ms, obs)
    IN  PhiCombine(DirectionalAgreement(biases), MagnitudeConsistency(biases))

(***************************************************************************)
(* calculate_bci_component_rho                                             *)
(***************************************************************************)
\* min(spread / error, 1.0) for error > 0.1 (a nan spread gives nan: Python's min
\* keeps its first argument when the comparison with 1.0 is false)
SpreadSkillRatio(sp, er) ==
    IF Gt(er, ErrTol)
    THEN IF IsNan(sp) THEN NaN
         ELSE IF sp.num * er.den >= er.num * sp.den THEN Scale
         ELSE Quotient(sp, er)
    ELSE Scale

\* a faulty variant: the ratio is returned without the clip
calculate_bci_component_rho_unclipped(sp, er) == SpreadSkillRatio(sp, er)

calculate_bci_component_rho(sp, er) == np_clip(SpreadSkillRatio(sp, er), Lo, Hi)

(***************************************************************************)
(* calculate_bci                                                           *)
(***************************************************************************)
GeometricMean(phi, rho) == np_sqrt_prod(phi, rho)

calculate_bci(ms, obs, sp, er) ==
    LET phi == calculate_bci_component_phi(ms, obs)
        sp1 == IF sp = None THEN np_std(ms) ELSE Float(sp)
        er1 == IF er = None THEN np_abs_mean_diff(ms, obs) ELSE Float(er)
        rho == calculate_bci_component_rho(sp1, er1)
    IN  [bci |-> GeometricMean(phi, rho), phi |-> phi, rho |-> rho]

(***************************************************************************)
(* Calls of calculate_bci: the inputs of a call, and the call                *)
(***************************************************************************)
MaxMembers == 5

\* member temperatures, observations, spreads and errors, in Units: the members lie
\* 0.9375, 0.625 and 0.3125 below 3.5, at 3.5 and 0.625 above it
MemberValues == {328, 368, 408, 448, 528}
Observations == {448, 449}
SuppliedSpreads == {None, 0 - 32, 64, 192}
SuppliedErrors == {None, 8, 256}

MemberArrays == UNION {[1..n -> MemberValues] : n \in 0..MaxMembers}

\* the two worked calls of the specification: members 1, 2, 3, 4 against 2.5 and
\* members all 5.0 against 5.0, spread and error derived
LadderCall ==
    [members |-> <<128, 256, 384, 512>>, observation |-> 320,
     spread |-> None, error |-> None]
FlatCall ==
    [members |-> <<640, 640, 640, 640>>, observation |-> 640,
     spread |-> None, error |-> None]

\* a call whose derived error meets the threshold: the members' mean is 3.6 against
\* 3.5, and the double is 0.10000000000000009
TenthCall ==
    [members |-> <<448, 448, 448, 448, 512>>, observation |-> 448,
     spread |-> 0, error |-> None]

NoReturn == [bci |-> None, phi |-> None, rho |-> None]

ScoreIdle ==
    /\ ensemble_members = <<>>
    /\ observation = 0
    /\ spread = None
    /\ error = None
    /\ ret = NoReturn
    /\ spc = "idle"

ScoreInit ==
    /\ \/ /\ ensemble_members \in MemberArrays
          /\ observation \in Observations
          /\ spread \in SuppliedSpreads
          /\ error \in SuppliedErrors
       \/ \E c \in {LadderCall, FlatCall, TenthCall} :
             /\ ensemble_members = c.members
             /\ observation = c.observation
             /\ spread = c.spread
             /\ error = c.error
    /\ ret = NoReturn
    /\ spc = "call"

\* the call returns its triple; nothing in the function raises for an array
CalculateBci ==
    /\ spc = "call"
    /\ ret' = calculate_bci(ensemble_members, observation, spread, error)
    /\ spc' = "returned"
    /\ UNCHANGED <<ensemble_members, observation, spread, error>>
    /\ UNCHANGED <<procVars, validVars, downVars>>

(***************************************************************************)
(* process_validation_data                                                 *)
(***************************************************************************)
MinMembers == 4
MaxMatched == 3

\* pd.to_datetime: the timestamp a valid_time string denotes, in hours from
\* 2022-02-17 00:00; the two CSV files may write the same instant differently
pd_to_datetime(s) ==
    CASE s = "2022-02-17 00:00:00" -> 0
      [] s = "2022-02-17T00:00:00" -> 0
      [] s = "2022-02-17 06:00:00" -> 6
      [] s = "2022-02-17T06:00:00" -> 6

ParseValidTime(table) ==
    [i \in 1..Len(table) |->
        [table[i] EXCEPT !.valid_time = pd_to_datetime(table[i].valid_time)]]

\* the rows a matched-forecast CSV may hold
MatchedRow(s, t, o) ==
    [storm |-> s, valid_time |-> t, obs_temperature |-> o,
     model_mean |-> 448, model_std |-> 64, mean_error |-> 256]

MatchedRows ==
    {MatchedRow(s, t, 448) :
        s \in {"Eunice", "Babet"}, t \in {"2022-02-17 00:00:00", "2022-02-17 06:00:00"}}
    \cup {MatchedRow("Eunice", "2022-02-17 00:00:00", 449)}

MatchedTables == UNION {[1..n -> MatchedRows] : n \in 0..MaxMatched}

\* the ensemble-member CSVs: c rows for each of three (storm, valid_time) keys
MemberPattern == <<328, 368, 448, 528, 368>>

EnsembleRows(s, t, c) ==
    [i \in 1..c |-> [storm |-> s, valid_time |-> t, temperature |-> MemberPattern[i]]]

EnsembleTables ==
    {EnsembleRows("Eunice", "2022-02-17T00:00:00", c1)
        \o EnsembleRows("Eunice", "2022-02-17T06:00:00", c2)
        \o EnsembleRows("eunice", "2022-02-17T00:00:00", c3) :
        c1 \in {0, 3, 4, 5}, c2 \in {0, 4}, c3 \in {0, 4}}

\* a faulty variant: the join compares the storm name only
RECURSIVE Members_storm_only(_, _, _)
Members_storm_only(edf, storm, vt) ==
    IF edf = <<>> THEN <<>>
    ELSE LET r == Head(edf)
             rest == Members_storm_only(Tail(edf), storm, vt)
         IN  IF r.storm = storm THEN <<r.temperature>> \o rest ELSE rest

\* ensemble_df[(storm == storm) & (valid_time == vt)]['temperature'].values
RECURSIVE Members(_, _, _)
Members(edf, storm, vt) ==
    IF edf = <<>> THEN <<>>
    ELSE LET r == Head(edf)
             rest == Members(Tail(edf), storm, vt)
         IN  IF r.storm = storm /\ r.valid_time = vt
             THEN <<r.temperature>> \o rest
             ELSE rest

\* a faulty variant: three members are enough
TooFew_three(members) == Len(members) < MinMembers - 1

\* len(members) < 4
TooFew(members) == Len(members) < MinMembers

ScoredRow(row, members) ==
    LET s == calculate_bci(members, row.obs_temperature, row.model_std, row.mean_error)
    IN  [storm |-> row.storm,
         valid_time |-> row.valid_time,
         obs_temperature |-> row.obs_temperature,
         model_mean |-> row.model_mean,
         model_std |-> row.model_std,
         mean_error |-> row.mean_error,
         phi |-> s.phi,
         rho |-> s.rho,
         BCI |-> s.bci,
         n_members |-> Len(members)]

ProcIdle ==
    /\ matched_df = <<>>
    /\ ensemble_df = <<>>
    /\ idx = 0
    /\ results = <<>>
    /\ ppc = "idle"

\* the two tables as pd.read_csv returns them
ProcInit ==
    /\ matched_df \in MatchedTables
    /\ ensemble_df \in EnsembleTables
    /\ idx = 0
    /\ results = <<>>
    /\ ppc = "load"

\* lines 145-150: both valid_time columns are parsed, results = []
ParseTimes ==
    /\ ppc = "load"
    /\ matched_df' = ParseValidTime(matched_df)
    /\ ensemble_df' = ParseValidTime(ensemble_df)
    /\ idx' = 1
    /\ results' = <<>>
    /\ ppc' = "loop"
    /\ UNCHANGED <<scoreVars, validVars, downVars>>

CurrentMembers ==
    Members(ensemble_df, matched_df[idx].storm, matched_df[idx].valid_time)

\* a faulty variant: `break` in place of `continue`
LoopSkip_break ==
    /\ ppc = "loop"
    /\ idx <= Len(matched_df)
    /\ TooFew(CurrentMembers)
    /\ idx' = Len(matched_df) + 1
    /\ UNCHANGED <<matched_df, ensemble_df, results, ppc>>
    /\ UNCHANGED <<scoreVars, validVars, downVars>>

\* one iteration that ends in `continue`
LoopSkip ==
    /\ ppc = "loop"
    /\ idx <= Len(matched_df)
    /\ TooFew(CurrentMembers)
    /\ idx' = idx + 1
    /\ UNCHANGED <<matched_df, ensemble_df, results, ppc>>
    /\ UNCHANGED <<scoreVars, validVars, downVars>>

\* one iteration that scores the row and appends the record
LoopScore ==
    /\ ppc = "loop"
    /\ idx <= Len(matched_df)
    /\ ~TooFew(CurrentMembers)
    /\ results' = Append(results, ScoredRow(matched_df[idx], CurrentMembers))
    /\ idx' = idx + 1
    /\ UNCHANGED <<matched_df, ensemble_df, ppc>>
    /\ UNCHANGED <<scoreVars, validVars, downVars>>

\* lines 185-189: the loop is over, the results are written to the output file
SaveResults ==
    /\ ppc = "loop"
    /\ idx > Len(matched_df)
    /\ ppc' = "saved"
    /\ UNCHANGED <<matched_df, ensemble_df, idx, results>>
    /\ UNCHANGED <<scoreVars, validVars, downVars>>

\* lines 192-203: the statistics are printed and results_df returned
PrintStatistics ==
    /\ ppc = "saved"
    /\ results # <<>>
    /\ ppc' = "done"
    /\ UNCHANGED <<matched_df, ensemble_df, idx, results>>
    /\ UNCHANGED <<scoreVars, validVars, downVars>>

\* line 193: pd.DataFrame([]) has no columns, results_df['BCI'] raises KeyError
StatisticsKeyError ==
    /\ ppc = "saved"
    /\ results = <<>>
    /\ ppc' = "KeyError"
    /\ UNCHANGED <<matched_df, ensemble_df, idx, results>>
    /\ UNCHANGED <<scoreVars, validVars, downVars>>

(***************************************************************************)
(* validate_bci: the per-storm statistics                                  *)
(* df is the storm column of the scored dataset; the other columns enter   *)
(* neither the instance count N nor the order of the summary.              *)
(***************************************************************************)
MaxRows == 4

\* storm names in the order groupby sorts its keys (lexicographic)
StormNames == <<"Arwen", "Babet", "Ciaran", "Dudley", "Eunice">>

SmallStorms == {"Arwen", "Babet", "Ciaran"}

Repeat(s, n) == [i \in 1..n |-> s]

\* a dataset of five storms with 10, 3, 7, 1 and 20 instances
FiveStorms ==
    Repeat("Arwen", 10) \o Repeat("Babet", 3) \o Repeat("Ciaran", 7)
        \o Repeat("Dudley", 1) \o Repeat("Eunice", 20)

Datasets == UNION {[1..n -> SmallStorms] : n \in 0..MaxRows} \cup {FiveStorms}

CountOf(d, s) == Cardinality({i \in DOMAIN d : d[i] = s})

\* df.groupby('storm').agg({..., 'valid_time': 'count'}): one row per storm present,
\* in sorted key order, with its instance count N
RECURSIVE GroupBy(_, _)
GroupBy(names, d) ==
    IF names = <<>> THEN <<>>
    ELSE LET c == CountOf(d, Head(names))
         IN  (IF c > 0 THEN <<[storm |-> Head(names), N |-> c]>> ELSE <<>>)
                 \o GroupBy(Tail(names), d)

\* a faulty variant: ascending=True
InOrder_ascending(a, b) == a.N <= b.N

\* the order sort_values asks for: N descending
InOrder(a, b) == a.N >= b.N

\* storm_stats.sort_values('N', ascending=False): the default kind is quicksort, which
\* is not a stable sort, so rows with equal N may come out in any order
sort_values(groups) ==
    LET n == Len(groups)
        perms == {p \in [1..n -> 1..n] : \A i, j \in 1..n : p[i] = p[j] => i = j}
    IN  {[i \in 1..n |-> groups[p[i]]] : p \in
            {q \in perms : \A i \in 1..n - 1 : InOrder(groups[q[i]], groups[q[i + 1]])}}

ValidIdle ==
    /\ df = <<>>
    /\ storm_stats = <<>>
    /\ vpc = "idle"

ValidInit ==
    /\ df \in Datasets
    /\ storm_stats = <<>>
    /\ vpc = "start"

\* line 53: pearsonr raises ValueError for fewer than two rows
PearsonValueError ==
    /\ vpc = "start"
    /\ Len(df) < 2
    /\ vpc' = "ValueError"
    /\ UNCHANGED <<df, storm_stats>>
    /\ UNCHANGED <<scoreVars, procVars, downVars>>

\* lines 53-93: the correlations leave df alone; the summary is grouped and sorted
Summarize ==
    /\ vpc = "start"
    /\ Len(df) >= 2
    /\ storm_stats' \in sort_values(GroupBy(StormNames, df))
    /\ vpc' = "done"
    /\ UNCHANGED df
    /\ UNCHANGED <<scoreVars, procVars, downVars>>

(***************************************************************************)
(* download_tigge_storms                                                   *)
(***************************************************************************)
storms ==
    <<"Eunice", "Ciaran", "Babet", "Henk", "Isha", "Jocelyn", "Arwen",
      "Malik", "Dudley", "Franklin", "Noa", "Debi", "Fergus", "Gerrit">>

origins == <<"ecmf", "cwao">>

total == Len(storms) * Len(origins)

DownIdle ==
    /\ completed = 0
    /\ issued = <<>>
    /\ n_files = 0
    /\ n_errors = 0
    /\ storm_i = 0
    /\ origin_i = 0
    /\ dpc = "idle"

\* lines 22-51: the server object exists, the output directory is there and empty
DownInit ==
    /\ completed = 0
    /\ issued = <<>>
    /\ n_files = 0
    /\ n_errors = 0
    /\ storm_i = 1
    /\ origin_i = 1
    /\ dpc = "loop"

InLoop == dpc = "loop" /\ storm_i <= Len(storms)

\* lines 57-79: the counter is advanced and the request is sent
Request == [name |-> storms[storm_i], origin |-> origins[origin_i]]

\* the inner for loop moves on, and the outer one when the origins are used up
NextIteration ==
    IF origin_i < Len(origins)
    THEN origin_i' = origin_i + 1 /\ storm_i' = storm_i
    ELSE origin_i' = 1 /\ storm_i' = storm_i + 1

\* retrieve returns and the target file exists
RetrieveOk ==
    /\ InLoop
    /\ completed' = completed + 1
    /\ issued' = Append(issued, Request)
    /\ n_files' = n_files + 1
    /\ NextIteration
    /\ UNCHANGED <<n_errors, dpc>>
    /\ UNCHANGED <<scoreVars, procVars, validVars>>

\* retrieve returns and there is no target file: "Failed" is printed
RetrieveNoFile ==
    /\ InLoop
    /\ completed' = completed + 1
    /\ issued' = Append(issued, Request)
    /\ NextIteration
    /\ UNCHANGED <<n_files, n_errors, dpc>>
    /\ UNCHANGED <<scoreVars, procVars, validVars>>

\* a faulty variant: no try/except around retrieve, the exception ends the run
RetrieveError_uncaught ==
    /\ InLoop
    /\ completed' = completed + 1
    /\ issued' = Append(issued, Request)
    /\ n_errors' = n_errors + 1
    /\ dpc' = "raised"
    /\ UNCHANGED <<n_files, storm_i, origin_i>>
    /\ UNCHANGED <<scoreVars, procVars, validVars>>

\* retrieve raises an Exception: it is caught and printed
RetrieveError ==
    /\ InLoop
    /\ completed' = completed + 1
    /\ issued' = Append(issued, Request)
    /\ n_errors' = n_errors + 1
    /\ NextIteration
    /\ UNCHANGED <<n_files, dpc>>
    /\ UNCHANGED <<scoreVars, procVars, validVars>>

\* lines 90-101: both loops are over, the final summary is printed
FinalSummary ==
    /\ dpc = "loop"
    /\ storm_i > Len(storms)
    /\ dpc' = "done"
    /\ UNCHANGED <<completed, issued, n_files, n_errors, storm_i, origin_i>>
    /\ UNCHANGED <<scoreVars, procVars, validVars>>

(***************************************************************************)
(* The specifications: one program is run, the others stay idle            *)
(***************************************************************************)
InitScore == ScoreInit /\ ProcIdle /\ ValidIdle /\ DownIdle

NextScore == CalculateBci

SpecScore == InitScore /\ [][NextScore]_vars

InitProcess == ScoreIdle /\ ProcInit /\ ValidIdle /\ DownIdle

NextProcess ==
    \/ ParseTimes
    \/ LoopSkip
    \/ LoopScore
    \/ SaveResults
    \/ PrintStatistics
    \/ StatisticsKeyError

SpecProcess == InitProcess /\ [][NextProcess]_vars

InitValidate == ScoreIdle /\ ProcIdle /\ ValidInit /\ DownIdle

NextValidate ==
    \/ PearsonValueError
    \/ Summarize

SpecValidate == InitValidate /\ [][NextValidate]_vars

InitDownload == ScoreIdle /\ ProcIdle /\ ValidIdle /\ DownInit

NextDownload ==
    \/ RetrieveOk
    \/ RetrieveNoFile
    \/ RetrieveError
    \/ FinalSummary

\* the script is one sequential thread: a step that can be taken is taken
SpecDownload == InitDownload /\ [][NextDownload]_vars /\ WF_vars(NextDownload)

(***************************************************************************)
(* Properties of calculate_bci (checked under SpecScore)                   *)
(***************************************************************************)
Returned == spc = "returned"

CallBiases == Biases(ensemble_members, observation)

\* C1: a call with a non-empty member array returns phi, rho and BCI in [0.3, 1.0],
\* and BCI is the square root of phi * rho (to the thousandth a score is kept to)
C1_RangesAndGeometricMean ==
    (Returned /\ ensemble_members # <<>>) =>
        /\ Lo <= ret.phi /\ ret.phi <= Hi
        /\ Lo <= ret.rho /\ ret.rho <= Hi
        /\ Lo <= ret.bci /\ ret.bci <= Hi
        /\ ret.bci * ret.bci <= ret.phi * ret.rho
        /\ ret.phi * ret.rho < (ret.bci + 1) * (ret.bci + 1)

\* a call whose phi and rho are both raised to the floor by the clip
C1_Witness ==
    /\ Returned
    /\ ensemble_members # <<>>
    /\ ret.phi = Lo
    /\ ret.rho = Lo
    /\ ret.bci = Lo

\* C5: a call with an empty member array raises: it never returns a triple
C5_EmptyMembersRaise == ~(Returned /\ ensemble_members = <<>>)

RECURSIVE OddPart(_)
OddPart(n) == IF n % 2 = 0 THEN OddPart(n \div 2) ELSE n

\* The coefficient of variation behind the magnitude-consistency term, as the exact
\* quotient num / den, for the calls whose doubles hold it without rounding: the
\* mean and the variance of the biases are whole multiples of a power of two and
\* the variance is a square, so that bias_std / bias_mean is the double nearest to
\* num / den and two calls with equal quotients have the same double for the term.
\* The default term 0.8 is the term of the quotient 1/4.  den = 0: the doubles round.
ExactCV(biases) ==
    LET n == Len(biases)
        s == Abs(SumSeq(biases))
        m == ScaledVariance(biases)
        q == ISqrt(m)
        o == OddPart(n)
    IN  IF ~Gt(np_abs_mean_diff(biases, 0), BiasTol) THEN [num |-> 1, den |-> 4]
        ELSE IF q * q = m /\ s % o = 0 /\ q % o = 0 THEN [num |-> q, den |-> s]
        ELSE [num |-> 0, den |-> 0]

\* two calls with the same double for the magnitude-consistency term
SameTerm(a, b) == a.den # 0 /\ b.den # 0 /\ a.num * b.den = b.num * a.den

\* what the phi component computes for one call
PhiProfile(ms, obs) ==
    [da |-> DirectionalAgreement(Biases(ms, obs)),
     cv |-> ExactCV(Biases(ms, obs)),
     phi |-> calculate_bci_component_phi(ms, obs)]

\* the profiles of all calls with a non-empty member array
PhiProfiles ==
    {PhiProfile(ms, obs) : ms \in MemberArrays \ {<<>>}, obs \in Observations}
        \cup {PhiProfile(c.members, c.observation) :
                 c \in {LadderCall, FlatCall, TenthCall}}

\* the calls with the magnitude consistency of this call and less directional agreement
LessAgreeing ==
    LET cv == ExactCV(CallBiases)
        da == DirectionalAgreement(CallBiases)
    IN  {p \in PhiProfiles : SameTerm(p.cv, cv) /\ p.da < da}

\* C6 as claimed: at equal magnitude consistency, more directional agreement gives a
\* strictly larger phi unless the larger phi is 1.0
C6_StrictUpToUpperClip ==
    (Returned /\ ensemble_members # <<>>) =>
        \A p \in LessAgreeing : p.phi < ret.phi \/ ret.phi = Hi

\* C6 as amended: phi never decreases, and it increases strictly unless the larger
\* phi is 1.0 or both are clipped to the floor 0.3
C6_StrictBetweenClips ==
    (Returned /\ ensemble_members # <<>>) =>
        \A p \in LessAgreeing :
            /\ p.phi <= ret.phi
            /\ p.phi < ret.phi \/ ret.phi = Hi \/ (ret.phi = Lo /\ p.phi = Lo)

\* a call on the computed branch whose phi, below 1.0, strictly beats that of a call
\* of equal magnitude consistency and less directional agreement
C6_Witness ==
    /\ Returned
    /\ Gt(np_abs_mean_diff(CallBiases, 0), BiasTol)
    /\ \E p \in LessAgreeing : p.phi < ret.phi /\ ret.phi < Hi

\* C7: when |mean(bias)| <= 0.01 the magnitude term is 0.8 and phi = 0.5 * da + 0.4;
\* members 1, 2, 3, 4 against 2.5 give phi 0.65, rho 1.0, BCI sqrt(0.65); members all
\* 5.0 against 5.0 give da 0, phi 0.4, rho 1.0, BCI sqrt(0.4)
C7_NearZeroBias ==
    /\ (/\ Returned
        /\ ensemble_members # <<>>
        /\ Abs(SumSeq(CallBiases)) * Scale <= BiasTol * Unit * Len(ensemble_members))
            => ret.phi = (DirectionalAgreement(CallBiases) \div 2) + 400
    /\ (/\ Returned
        /\ ensemble_members = LadderCall.members
        /\ observation = LadderCall.observation)
            => /\ ret.phi = 650
               /\ ret.rho = 1000
               /\ ret.bci * ret.bci <= 650 * Scale
               /\ 650 * Scale < (ret.bci + 1) * (ret.bci + 1)
    /\ (/\ Returned
        /\ ensemble_members = FlatCall.members
        /\ observation = FlatCall.observation)
            => /\ DirectionalAgreement(CallBiases) = 0
               /\ ret.phi = 400
               /\ ret.rho = 1000
               /\ ret.bci * ret.bci <= 400 * Scale
               /\ 400 * Scale < (ret.bci + 1) * (ret.bci + 1)

\* a call with a mean bias that is not zero and at most 0.01, all members on one side
C7_Witness ==
    /\ Returned
    /\ Len(ensemble_members) > 1
    /\ SumSeq(CallBiases) # 0
    /\ Abs(SumSeq(CallBiases)) * Scale <= BiasTol * Unit * Len(ensemble_members)
    /\ ret.phi = 900

(***************************************************************************)
(* Properties of process_validation_data (checked under SpecProcess)       *)
(***************************************************************************)
Parsed == ppc \in {"loop", "saved", "done", "KeyError"}

LoopOver == ppc \in {"saved", "done", "KeyError"}

\* the number of ensemble rows with exactly this storm name and this timestamp
KeyCount(s, t) ==
    Cardinality({i \in DOMAIN ensemble_df :
        ensemble_df[i].storm = s /\ ensemble_df[i].valid_time = t})

SameKey(a, b) == a.storm = b.storm /\ a.valid_time = b.valid_time

RowsFor(r) == Cardinality({i \in DOMAIN matched_df : SameKey(matched_df[i], r)})

RecordsFor(r) == Cardinality({i \in DOMAIN results : SameKey(results[i], r)})

\* C2: no record is emitted for a row whose key has fewer than 4 member rows, and
\* there are at most as many records as matched rows
C2_NeverFewerThanFour ==
    Parsed =>
        /\ Len(results) <= Len(matched_df)
        /\ \A i \in DOMAIN results :
            /\ results[i].n_members >= MinMembers
            /\ results[i].n_members = KeyCount(results[i].storm, results[i].valid_time)

\* a finished run that scored a row and skipped one with exactly 3 members
C2_Witness ==
    /\ ppc = "done"
    /\ Len(results) >= 1
    /\ \E i \in DOMAIN matched_df :
        KeyCount(matched_df[i].storm, matched_df[i].valid_time) = MinMembers - 1

\* C3 as claimed: exactly one record for each (storm, valid_time) pair of the matched
\* table that has at least 4 members, none for the others
C3_ExactlyOncePerPair ==
    LoopOver =>
        \A i \in DOMAIN matched_df :
            LET r == matched_df[i]
            IN  RecordsFor(r) =
                    IF KeyCount(r.storm, r.valid_time) >= MinMembers THEN 1 ELSE 0

\* C3 as amended: one record for each matched row whose pair has at least 4 members
\* (as many records for a pair as rows carry it), none for the others
C3_OncePerMatchedRow ==
    LoopOver =>
        /\ \A i \in DOMAIN matched_df :
            LET r == matched_df[i]
            IN  RecordsFor(r) =
                    IF KeyCount(r.storm, r.valid_time) >= MinMembers
                    THEN RowsFor(r) ELSE 0
        /\ \A j \in DOMAIN results : RowsFor(results[j]) >= 1

\* a finished run whose matched table carries a qualifying pair twice
C3_Witness ==
    /\ ppc = "done"
    /\ \E i, j \in DOMAIN matched_df :
        /\ i < j
        /\ SameKey(matched_df[i], matched_df[j])
        /\ KeyCount(matched_df[i].storm, matched_df[i].valid_time) >= MinMembers
        /\ RecordsFor(matched_df[i]) = 2

\* C4: rows with fewer than 4 members are skipped and the run returns its dataset,
\* however many are skipped: the run never ends in an error
C4_RunsToCompletion == ppc # "KeyError"

MatchedFields(r) ==
    [storm |-> r.storm, valid_time |-> r.valid_time,
     obs_temperature |-> r.obs_temperature, model_mean |-> r.model_mean,
     model_std |-> r.model_std, mean_error |-> r.mean_error]

\* the rows of a table whose pair has at least 4 member rows, in table order
RECURSIVE Qualifying(_)
Qualifying(rows) ==
    IF rows = <<>> THEN <<>>
    ELSE (IF KeyCount(Head(rows).storm, Head(rows).valid_time) >= MinMembers
          THEN <<Head(rows)>> ELSE <<>>) \o Qualifying(Tail(rows))

\* C8: the records are the qualifying matched rows in matched-row order (a skipped
\* row neither reorders nor drops a later one); a row qualifies by exact equality of
\* storm name and of timestamp
C8_InputOrder ==
    Parsed =>
        [j \in DOMAIN results |-> MatchedFields(results[j])]
            = Qualifying(SubSeq(matched_df, 1, idx - 1))

\* a finished run: a scored row, then a skipped row, then a different scored row
C8_Witness ==
    /\ ppc = "done"
    /\ Len(matched_df) = 3
    /\ Len(results) = 2
    /\ MatchedFields(results[1]) = matched_df[1]
    /\ MatchedFields(results[2]) = matched_df[3]
    /\ matched_df[1] # matched_df[3]

(***************************************************************************)
(* Properties of the per-storm summary (checked under SpecValidate)        *)
(***************************************************************************)
FirstRow(s) == CHOOSE i \in DOMAIN df : df[i] = s /\ \A j \in 1..i - 1 : df[j] # s

Descending == \A i \in 1..Len(storm_stats) - 1 : storm_stats[i].N >= storm_stats[i + 1].N

\* C9 as claimed: descending instance count, storms with equal counts in the order in
\* which they are first met in the dataset
C9_TiesByFirstEncounter ==
    vpc = "done" =>
        /\ Descending
        /\ \A i, j \in DOMAIN storm_stats :
            (i < j /\ storm_stats[i].N = storm_stats[j].N)
                => FirstRow(storm_stats[i].storm) < FirstRow(storm_stats[j].storm)

\* C9 as amended: one row per storm with its instance count, in descending count;
\* counts 10, 3, 7, 1, 20 are listed as 20, 10, 7, 3, 1
C9_DescendingCount ==
    vpc = "done" =>
        /\ Descending
        /\ \A i \in DOMAIN storm_stats :
            storm_stats[i].N = CountOf(df, storm_stats[i].storm)
        /\ \A i, j \in DOMAIN storm_stats :
            storm_stats[i].storm = storm_stats[j].storm => i = j
        /\ \A k \in DOMAIN df : \E i \in DOMAIN storm_stats : storm_stats[i].storm = df[k]
        /\ df = FiveStorms =>
            [i \in DOMAIN storm_stats |-> storm_stats[i].N] = <<20, 10, 7, 3, 1>>

\* a summary that lists two storms of equal count against their order of first
\* appearance in the dataset
C9_Witness ==
    /\ vpc = "done"
    /\ \E i, j \in DOMAIN storm_stats :
        /\ i < j
        /\ storm_stats[i].N = storm_stats[j].N
        /\ FirstRow(storm_stats[i].storm) > FirstRow(storm_stats[j].storm)

(***************************************************************************)
(* Properties of download_tigge_storms (checked under SpecDownload)        *)
(***************************************************************************)
\* the 28 requests, storm by storm
AllRequests ==
    [k \in 1..total |->
        [name |-> storms[((k - 1) \div Len(origins)) + 1],
         origin |-> origins[((k - 1) % Len(origins)) + 1]]]

IssuedInOrder ==
    /\ completed = Len(issued)
    /\ completed <= total
    /\ \A k \in DOMAIN issued : issued[k] = AllRequests[k]
    /\ Cardinality({issued[k] : k \in DOMAIN issued}) = Len(issued)

BatchDone ==
    /\ dpc = "done"
    /\ completed = total
    /\ issued = AllRequests

\* C10: whichever retrievals fail, the requests are issued once each in storm-major
\* order, and the run reaches the final summary with all 28 issued
C10_BatchCompletes == [](IssuedInOrder /\ dpc \in {"loop", "done"}) /\ <>BatchDone

\* a finished run in which some retrievals raised and some left no file
C10_Witness ==
    /\ BatchDone
    /\ n_errors > 0
    /\ n_files > 0
    /\ n_files + n_errors < completed

=============================================================================
